---------------------------- MODULE Spec2Model ----------------------------
(***************************************************************************)
(* Model of app/src/ui/diff/image-diffs/modified-image-diff.tsx:           *)
(* the pure function getFittingSize and the ModifiedImageDiff component.   *)
(*                                                                         *)
(* JavaScript numbers are IEEE-754 doubles.  A double is modelled as a     *)
(* record [k, s, hi, lo, e]: k is the class ("zero", "fin", "inf", "nan"), *)
(* s the sign bit, and for a finite non-zero number the value is           *)
(*     (-1)^s * (hi * 2^26 + lo) * 2^e                                      *)
(* with a 53-bit significand hi * 2^26 + lo in [2^52, 2^53) split in two   *)
(* limbs so that every intermediate fits in a 32-bit integer.  Division    *)
(* rounds to nearest, ties to even, as the hardware does.  The exponent is *)
(* unbounded: with the sizes used here no result leaves the normal range   *)
(* of a double, so overflow and subnormals do not occur.                   *)
(***************************************************************************)
EXTENDS Integers, Sequences, FiniteSets, TLC

VARIABLES
    value,              \* state.value
    previousImageSize,  \* state.previousImageSize (Null until loaded)
    currentImageSize,   \* state.currentImageSize (Null until loaded)
    container,          \* this.container: Null or the mounted element
    rect,               \* what getBoundingClientRect() of the element returns
    diffType,           \* props.diffType
    imagesMounted,      \* the two <img> elements are in the DOM
    layout,             \* result of the last getScaledDimensions call
    renderResult,       \* outcome of the last render call
    pc,                 \* position of the fitting run
    imageSize,          \* getFittingSize argument: natural size of an image
    containerSize,      \* getFittingSize argument: measured container
    fitted,             \* getFittingSize(imageSize, containerSize)
    refitted            \* getFittingSize(fitted, containerSize)

compVars == <<value, previousImageSize, currentImageSize, container, rect,
              diffType, imagesMounted, layout, renderResult>>
fitVars == <<pc, imageSize, containerSize, fitted, refitted>>
vars == <<value, previousImageSize, currentImageSize, container, rect,
          diffType, imagesMounted, layout, renderResult,
          pc, imageSize, containerSize, fitted, refitted>>

\* null, as a record so that it compares with the sizes it stands in for
Null == [null |-> TRUE]
\* the container <div> handed to the ref callback
ContainerElement == [tag |-> "div"]

SIZE_CONTROLS == 60
PADDING == 20

---------------------------------------------------------------------------
(* Bounds of the model.                                                    *)

\* an image handed to getFittingSize has sides in 0..MaxLong, one of them in
\* 0..MaxShort
MaxLong == 17
MaxShort == 3
\* the usable area of a container has sides in -1..MaxUsableLong, one of them
\* in -1..MaxUsableShort (the zero container and the one of the example are
\* added)
MaxUsableLong == 7
MaxUsableShort == 2
\* natural sizes of the images the component loads: widths in
\* 1..MaxNaturalWidth, heights in 1..MaxNaturalHeight
MaxNaturalWidth == 2
MaxNaturalHeight == 1

---------------------------------------------------------------------------
(* IEEE-754 double arithmetic.                                             *)

Limb == 2^26            \* weight of the high limb of a significand
HiTop == 2^27           \* the high limb is in [2^26, 2^27)
HalfLimb == 2^25
HiBits == 27            \* bits of the high limb
LoBits == 26            \* bits of the low limb

Zero == [k |-> "zero", s |-> 0, hi |-> 0, lo |-> 0, e |-> 0]
NaN == [k |-> "nan", s |-> 0, hi |-> 0, lo |-> 0, e |-> 0]
Inf(sign) == [k |-> "inf", s |-> sign, hi |-> 0, lo |-> 0, e |-> 0]
SignedZero(sign) == [k |-> "zero", s |-> sign, hi |-> 0, lo |-> 0, e |-> 0]

RECURSIVE NormHi(_, _)
\* shift h left until it is a high limb; returns <<limb, shift count>>
NormHi(h, t) == IF h >= Limb THEN <<h, t>> ELSE NormHi(2 * h, t + 1)

\* the double that an integer literal or an integer-valued measurement denotes
Num(n) ==
    IF n = 0 THEN Zero
    ELSE LET a == IF n < 0 THEN 0 - n ELSE n
             p == NormHi(a, 0)
         IN [k |-> "fin", s |-> IF n < 0 THEN 1 ELSE 0,
             hi |-> p[1], lo |-> 0, e |-> 0 - (26 + p[2])]

One == Num(1)

IsFinite(x) == x.k \in {"zero", "fin"}

\* significand a < significand b
MantLess(ah, al, bh, bl) == ah < bh \/ (ah = bh /\ al < bl)

\* |x| < |y| for finite non-zero x, y
MagLess(x, y) ==
    x.e < y.e \/ (x.e = y.e /\ MantLess(x.hi, x.lo, y.hi, y.lo))

\* the JavaScript relational operator x < y
Less(x, y) ==
    IF x.k = "nan" \/ y.k = "nan" THEN FALSE
    ELSE IF x.k = "zero" THEN
        (y.k \in {"fin", "inf"} /\ y.s = 0)
    ELSE IF y.k = "zero" THEN
        x.s = 1
    ELSE IF x.s # y.s THEN x.s = 1
    ELSE IF x.k = "inf" THEN (x.s = 1 /\ y.k = "fin")
    ELSE IF y.k = "inf" THEN y.s = 0
    ELSE IF x.s = 0 THEN MagLess(x, y) ELSE MagLess(y, x)

\* numeric equality (x === y on numbers)
NumEq(x, y) ==
    /\ x.k # "nan" /\ y.k # "nan"
    /\ \/ (x.k = "zero" /\ y.k = "zero")
       \/ x = y

LessEq(x, y) == Less(x, y) \/ NumEq(x, y)

\* Math.max(x, y)
MathMax(x, y) ==
    IF x.k = "nan" \/ y.k = "nan" THEN NaN
    ELSE IF Less(x, y) THEN y ELSE x

RECURSIVE DivLoop(_, _, _, _, _, _)
\* binary long division: n quotient bits still to produce, running remainder
\* (rh, rl) < 2 * divisor, quotient bits so far q, divisor (bh, bl).  Each
\* step subtracts the divisor if it fits and doubles the remainder.
\* Returns <<q, rh, rl>>.
DivLoop(n, rh, rl, q, bh, bl) ==
    IF n = 0 THEN <<q, rh, rl>>
    ELSE IF MantLess(rh, rl, bh, bl)
         THEN IF rl >= HalfLimb
              THEN DivLoop(n - 1, rh + rh + 1, rl + rl - Limb, q + q, bh, bl)
              ELSE DivLoop(n - 1, rh + rh, rl + rl, q + q, bh, bl)
         ELSE IF rl >= bl
              THEN IF rl - bl >= HalfLimb
                   THEN DivLoop(n - 1, (rh - bh) + (rh - bh) + 1,
                                (rl - bl) + (rl - bl) - Limb, q + q + 1, bh, bl)
                   ELSE DivLoop(n - 1, (rh - bh) + (rh - bh),
                                (rl - bl) + (rl - bl), q + q + 1, bh, bl)
              ELSE IF rl + Limb - bl >= HalfLimb
                   THEN DivLoop(n - 1, (rh - bh) + (rh - bh) - 1,
                                (rl - bl) + (rl - bl) + Limb, q + q + 1, bh, bl)
                   ELSE DivLoop(n - 1, (rh - bh) + (rh - bh) - 2,
                                (rl - bl) + (rl - bl) + Limb + Limb, q + q + 1, bh, bl)

\* the low limb of the quotient, after the high limb qh and the remainder
\* it left; returns <<qh, ql, rh, rl>>
QuotientLow(qh, dl) == <<qh, dl[1], dl[2], dl[3]>>

\* continues the division after the high limb dh = <<qh, rh, rl>>
QuotientAfter(dh, bh, bl) ==
    QuotientLow(dh[1], DivLoop(LoBits, dh[2], dh[3], 0, bh, bl))

\* the 53 quotient bits of (r0h, r0l) / (bh, bl) and twice the remainder
Quotient(r0h, r0l, bh, bl) ==
    QuotientAfter(DivLoop(HiBits, r0h, r0l, 0, bh, bl), bh, bl)

\* round to nearest, ties to even: q = <<qh, ql, rh, rl>> is rounded up when
\* the remainder is above half the divisor, or at half with an odd quotient
RoundsUp(q, bh, bl) ==
    \/ MantLess(bh, bl, q[3], q[4])
    \/ (q[3] = bh /\ q[4] = bl /\ q[2] % 2 = 1)

\* the double with sign, exponent e0 and significand (qh, ql), plus one unit
\* in the last place when up
Rounded(sign, e0, qh, ql, up) ==
    IF ~up THEN [k |-> "fin", s |-> sign, hi |-> qh, lo |-> ql, e |-> e0]
    ELSE IF ql + 1 < Limb
         THEN [k |-> "fin", s |-> sign, hi |-> qh, lo |-> ql + 1, e |-> e0]
    ELSE IF qh + 1 < HiTop
         THEN [k |-> "fin", s |-> sign, hi |-> qh + 1, lo |-> 0, e |-> e0]
    ELSE [k |-> "fin", s |-> sign, hi |-> Limb, lo |-> 0, e |-> e0 + 1]

RoundQuotient(sign, e0, q, bh, bl) ==
    Rounded(sign, e0, q[1], q[2], RoundsUp(q, bh, bl))

\* x / y for finite non-zero x and y, rounded to nearest, ties to even.
\* The dividend's significand is doubled when it is below the divisor's, so
\* that the first quotient bit is 1.
DivFinite(x, y) ==
    IF MantLess(x.hi, x.lo, y.hi, y.lo)
    THEN RoundQuotient((x.s + y.s) % 2, x.e - y.e - (HiBits + LoBits),
                       Quotient(2 * x.hi + ((2 * x.lo) \div Limb),
                                (2 * x.lo) % Limb, y.hi, y.lo),
                       y.hi, y.lo)
    ELSE RoundQuotient((x.s + y.s) % 2, x.e - y.e - (HiBits + LoBits - 1),
                       Quotient(x.hi, x.lo, y.hi, y.lo), y.hi, y.lo)

\* the JavaScript operator x / y
Div(x, y) ==
    LET sign == (x.s + y.s) % 2
    IN IF x.k = "nan" \/ y.k = "nan" THEN NaN
       ELSE IF x.k = "inf" THEN (IF y.k = "inf" THEN NaN ELSE Inf(sign))
       ELSE IF y.k = "inf" THEN SignedZero(sign)
       ELSE IF y.k = "zero" THEN (IF x.k = "zero" THEN NaN ELSE Inf(sign))
       ELSE IF x.k = "zero" THEN SignedZero(sign)
       ELSE IF y.hi = Limb /\ y.lo = 0
            THEN \* y is a power of two: the quotient is exact, only the
                 \* exponent and the sign change; the long division is skipped
                 [x EXCEPT !.s = sign, !.e = x.e - y.e - (HiBits + LoBits - 1)]
       ELSE DivFinite(x, y)

---------------------------------------------------------------------------
(* getFittingSize                                                          *)

\* an IImageSize whose fields are the integers w and h
Size(w, h) == [width |-> Num(w), height |-> Num(h)]

\* containerSize.width - PADDING; the measurements are integers, so the
\* subtraction is exact
UsableWidth(cs) == cs.width - PADDING
\* containerSize.height - PADDING - SIZE_CONTROLS
UsableHeight(cs) == cs.height - PADDING - SIZE_CONTROLS

HeightRatio(is, cs) ==
    IF Less(Num(UsableHeight(cs)), is.height)
    THEN Div(is.height, Num(UsableHeight(cs))) ELSE One

\* mutant: the width is measured against the usable height
WidthRatio_ByHeight(is, cs) ==
    IF Less(Num(UsableWidth(cs)), is.width)
    THEN Div(is.width, Num(UsableHeight(cs))) ELSE One

WidthRatio(is, cs) ==
    IF Less(Num(UsableWidth(cs)), is.width)
    THEN Div(is.width, Num(UsableWidth(cs))) ELSE One

\* mutant: the comparison is reversed, the smaller ratio is taken
Ratio_Smaller(widthRatio, heightRatio) ==
    IF Less(heightRatio, widthRatio)
    THEN MathMax(One, heightRatio)
    ELSE MathMax(One, widthRatio)

\* mutant: the height ratio is taken without Math.max(1, ...)
Ratio_NoHeightClamp(widthRatio, heightRatio) ==
    IF Less(widthRatio, heightRatio)
    THEN heightRatio
    ELSE MathMax(One, widthRatio)

\* mutant: the width ratio is taken without Math.max(1, ...)
Ratio_NoWidthClamp(widthRatio, heightRatio) ==
    IF Less(widthRatio, heightRatio)
    THEN MathMax(One, heightRatio)
    ELSE widthRatio

\* let ratio = Math.max(1, widthRatio);
\* if (widthRatio < heightRatio) ratio = Math.max(1, heightRatio)
Ratio(widthRatio, heightRatio) ==
    IF Less(widthRatio, heightRatio)
    THEN MathMax(One, heightRatio)
    ELSE MathMax(One, widthRatio)

\* the ratio both dimensions are divided by
FitRatio(is, cs) == Ratio(WidthRatio(is, cs), HeightRatio(is, cs))

\* mutant: the height is computed from imageSize.width (the slip of line 118)
Scaled_HeightFromWidth(is, cs, ratio) ==
    [width |-> Div(is.width, ratio), height |-> Div(is.width, ratio)]

\* mutant: the height is divided by the width ratio instead of the chosen one
Scaled_HeightByWidthRatio(is, cs, ratio) ==
    [width |-> Div(is.width, ratio),
     height |-> Div(is.height, MathMax(One, WidthRatio(is, cs)))]

\* the returned size: both sides divided by ratio
Scaled(is, cs, ratio) ==
    [width |-> Div(is.width, ratio), height |-> Div(is.height, ratio)]

getFittingSize(is, cs) == Scaled(is, cs, FitRatio(is, cs))

---------------------------------------------------------------------------
(* The fitting run: getFittingSize applied to an image and a container,    *)
(* and then to its own output against the same container.                  *)

ExampleImage == [width |-> 1000, height |-> 500]
ExampleContainer == [width |-> 620, height |-> 300]

ImageSizes ==
    {s \in [width : 0..MaxLong, height : 0..MaxLong] :
        s.width <= MaxShort \/ s.height <= MaxShort}
        \cup {ExampleImage}

ContainerWidths == {0} \cup ((PADDING - 1)..(PADDING + MaxUsableLong))
ContainerHeights ==
    {0} \cup ((PADDING + SIZE_CONTROLS - 1)..(PADDING + SIZE_CONTROLS + MaxUsableLong))

ContainerSizes ==
    {c \in [width : ContainerWidths, height : ContainerHeights] :
        \/ c.width <= PADDING + MaxUsableShort
        \/ c.height <= PADDING + SIZE_CONTROLS + MaxUsableShort}
        \cup {ExampleContainer}

FitInit ==
    /\ pc = "start"
    /\ imageSize \in ImageSizes
    /\ containerSize \in ContainerSizes
    /\ fitted = Null
    /\ refitted = Null
    /\ value = 1000
    /\ previousImageSize = Null
    /\ currentImageSize = Null
    /\ container = Null
    /\ rect = [width |-> 0, height |-> 0]
    /\ diffType = "TwoUp"
    /\ imagesMounted = FALSE
    /\ layout = Null
    /\ renderResult = "none"

Fit ==
    /\ pc = "start"
    /\ fitted' = getFittingSize(Size(imageSize.width, imageSize.height), containerSize)
    /\ pc' = "fitted"
    /\ UNCHANGED <<imageSize, containerSize, refitted>>
    /\ UNCHANGED compVars

Refit ==
    /\ pc = "fitted"
    /\ refitted' = getFittingSize(fitted, containerSize)
    /\ pc' = "refitted"
    /\ UNCHANGED <<imageSize, containerSize, fitted>>
    /\ UNCHANGED compVars

FitNext == Fit \/ Refit

FitSpec == FitInit /\ [][FitNext]_vars

---------------------------------------------------------------------------
(* The ModifiedImageDiff component.                                        *)

DiffTypes == {"TwoUp", "Swipe", "OnionSkin", "Difference"}

\* natural sizes an image element reports on load
NaturalSizes == [width : 1..MaxNaturalWidth, height : 1..MaxNaturalHeight]

\* sizes getBoundingClientRect reports for the container element: collapsed,
\* with a usable area of 1 x 1, and with room for every image
RectSizes ==
    {[width |-> 0, height |-> 0]} \cup
    {[width |-> PADDING + u, height |-> PADDING + SIZE_CONTROLS + u] :
        u \in {1, MaxNaturalWidth + MaxNaturalHeight}}

\* strings the range input (min 0, max 1, step 0.001) hands to onValueChange
SliderStrings == {<<"0", ".", "5">>, <<"1">>}

DigitChars == <<"0", "1", "2", "3", "4", "5", "6", "7", "8", "9">>
IsDigit(c) == \E d \in 1..10 : DigitChars[d] = c
DigitOf(c) == (CHOOSE d \in 1..10 : DigitChars[d] = c) - 1

RECURSIVE ParseInt(_, _, _)
\* reads decimal digits of str from position i; returns <<number, next position>>
ParseInt(str, i, acc) ==
    IF i <= Len(str) /\ IsDigit(str[i])
    THEN ParseInt(str, i + 1, 10 * acc + DigitOf(str[i]))
    ELSE <<acc, i>>

RECURSIVE ParseFrac(_, _, _, _)
\* reads the digits after the point, in thousandths
ParseFrac(str, i, weight, acc) ==
    IF i <= Len(str) /\ IsDigit(str[i]) /\ weight > 0
    THEN ParseFrac(str, i + 1, weight \div 10, acc + weight * DigitOf(str[i]))
    ELSE acc

\* parseFloat on a string of the range input; the number is kept in
\* thousandths, the step of the input
parseFloat(str) ==
    LET ip == ParseInt(str, 1, 0)
    IN IF ip[2] <= Len(str) /\ str[ip[2]] = "."
       THEN 1000 * ip[1] + ParseFrac(str, ip[2] + 1, 100, 0)
       ELSE 1000 * ip[1]

\* (this.container && this.container.getBoundingClientRect().width) || 0
MeasuredWidth(cont, r) == IF cont # Null /\ r.width # 0 THEN r.width ELSE 0
MeasuredHeight(cont, r) == IF cont # Null /\ r.height # 0 THEN r.height ELSE 0

\* height and width from the two fitted sizes (lines 117-118)
BoundingBox(previousSize, currentSize) ==
    [height |-> MathMax(previousSize.height, currentSize.height),
     width |-> MathMax(previousSize.width, currentSize.height)]

\* the returned object
Dimensions(box, measured) ==
    [height |-> box.height, width |-> box.width,
     containerHeight |-> measured.height,
     containerWidth |-> measured.width]

ScaledDimensions(prev, cur, measured) ==
    IF prev # Null /\ cur # Null
    THEN Dimensions(
             BoundingBox(
                 getFittingSize(Size(prev.width, prev.height), measured),
                 getFittingSize(Size(cur.width, cur.height), measured)),
             measured)
    ELSE Dimensions([height |-> Zero, width |-> Zero], measured)

getScaledDimensions(prev, cur, cont, r) ==
    ScaledDimensions(prev, cur, [width |-> MeasuredWidth(cont, r),
                                 height |-> MeasuredHeight(cont, r)])

\* render2Up reads previousImageSize!.width and currentImageSize!.width
render2UpThrows(prev, cur) == prev = Null \/ cur = Null

\* render with the state (prev, cur) and the prop dt: the layout is computed
\* from the container as it is before the commit; a render that returns
\* commits the elements (the ref callback gets the container, the two image
\* elements are created), a render that throws commits nothing
render(prev, cur, dt) ==
    /\ layout' = getScaledDimensions(prev, cur, container, rect)
    /\ IF dt = "TwoUp" /\ render2UpThrows(prev, cur)
       THEN /\ renderResult' = "TypeError"
            /\ UNCHANGED <<container, imagesMounted>>
       ELSE /\ renderResult' = "ok"
            /\ container' = ContainerElement
            /\ imagesMounted' = TRUE

Init ==
    /\ value = 1000
    /\ previousImageSize = Null
    /\ currentImageSize = Null
    /\ container = Null
    /\ rect \in RectSizes
    /\ diffType \in DiffTypes
    /\ imagesMounted = FALSE
    /\ layout = Null
    /\ renderResult = "none"
    /\ pc = "component"
    /\ imageSize = Null
    /\ containerSize = Null
    /\ fitted = Null
    /\ refitted = Null

\* the first render, or a re-render by the parent with the same props
Render ==
    /\ UNCHANGED <<value, previousImageSize, currentImageSize, diffType, rect>>
    /\ UNCHANGED fitVars
    /\ render(previousImageSize, currentImageSize, diffType)

\* the slider exists in the swipe and onion skin layouts
onValueChange(str) ==
    /\ imagesMounted
    /\ diffType \in {"Swipe", "OnionSkin"}
    /\ value' = parseFloat(str)
    /\ UNCHANGED <<previousImageSize, currentImageSize, diffType, rect>>
    /\ UNCHANGED fitVars
    /\ render(previousImageSize, currentImageSize, diffType)

\* mutant: the handler stores the size in both fields
onPreviousImageLoad_BothFields(size) ==
    /\ imagesMounted
    /\ previousImageSize' = size
    /\ currentImageSize' = size
    /\ UNCHANGED <<value, diffType, rect>>
    /\ UNCHANGED fitVars
    /\ render(size, size, diffType)

onPreviousImageLoad(size) ==
    /\ imagesMounted
    /\ previousImageSize' = size
    /\ UNCHANGED <<value, currentImageSize, diffType, rect>>
    /\ UNCHANGED fitVars
    /\ render(size, currentImageSize, diffType)

onCurrentImageLoad(size) ==
    /\ imagesMounted
    /\ currentImageSize' = size
    /\ UNCHANGED <<value, previousImageSize, diffType, rect>>
    /\ UNCHANGED fitVars
    /\ render(previousImageSize, size, diffType)

\* the parent passes a new diffType (after onChangeDiffType or on its own)
ChangeDiffType(t) ==
    /\ renderResult # "none"
    /\ t # diffType
    /\ diffType' = t
    /\ UNCHANGED <<value, previousImageSize, currentImageSize, rect>>
    /\ UNCHANGED fitVars
    /\ render(previousImageSize, currentImageSize, t)

\* the window or a pane is resized: the element measures differently at the
\* next render
Resize(r) ==
    /\ container # Null
    /\ r # rect
    /\ rect' = r
    /\ UNCHANGED <<value, previousImageSize, currentImageSize, container,
                   diffType, imagesMounted, layout, renderResult>>
    /\ UNCHANGED fitVars

ValueChanged == \E str \in SliderStrings : onValueChange(str)
PreviousImageLoaded == \E size \in NaturalSizes : onPreviousImageLoad(size)
CurrentImageLoaded == \E size \in NaturalSizes : onCurrentImageLoad(size)
DiffTypeChanged == \E t \in DiffTypes : ChangeDiffType(t)
Resized == \E r \in RectSizes : Resize(r)

Next ==
    \/ Render
    \/ ValueChanged
    \/ PreviousImageLoaded
    \/ CurrentImageLoaded
    \/ DiffTypeChanged
    \/ Resized

Spec == Init /\ [][Next]_vars

---------------------------------------------------------------------------
(* Neighbouring doubles, to state results "up to rounding".                *)

\* the next double above a positive finite x
NextUp(x) ==
    IF x.lo + 1 < Limb THEN [x EXCEPT !.lo = x.lo + 1]
    ELSE IF x.hi + 1 < HiTop THEN [x EXCEPT !.hi = x.hi + 1, !.lo = 0]
    ELSE [x EXCEPT !.hi = Limb, !.lo = 0, !.e = x.e + 1]

\* the next double below a positive finite x
NextDown(x) ==
    IF x.lo > 0 THEN [x EXCEPT !.lo = x.lo - 1]
    ELSE IF x.hi > Limb THEN [x EXCEPT !.hi = x.hi - 1, !.lo = Limb - 1]
    ELSE [x EXCEPT !.hi = HiTop - 1, !.lo = Limb - 1, !.e = x.e - 1]

RECURSIVE DownTo(_, _)
\* x and the n doubles below it
DownTo(x, n) == IF n = 0 THEN {x} ELSE {x} \cup DownTo(NextDown(x), n - 1)

RECURSIVE UpTo(_, _)
\* x and the n doubles above it
UpTo(x, n) == IF n = 0 THEN {x} ELSE {x} \cup UpTo(NextUp(x), n - 1)

\* y is at most n units in the last place away from the positive finite x
WithinUlps(x, y, n) == y \in DownTo(x, n) \cup UpTo(x, n)

---------------------------------------------------------------------------
(* Properties of getFittingSize, checked under FitSpec.                    *)

Fitted == pc \in {"fitted", "refitted"}
PositiveImage == imageSize.width > 0 /\ imageSize.height > 0
natural == Size(imageSize.width, imageSize.height)
\* the usable area as the specification defines it
usableWidth == containerSize.width - 20
usableHeight == containerSize.height - 20 - 60
PositiveUsable == usableWidth > 0 /\ usableHeight > 0

\* C1: an image with positive dimensions that is no wider and no taller than
\* the usable area (container width - 20, container height - 20 - 60) is
\* returned unchanged: it is scaled neither up nor down.
C1_SmallImageUnchanged ==
    (Fitted /\ PositiveImage
        /\ imageSize.width <= usableWidth /\ imageSize.height <= usableHeight)
    => fitted = natural

C1_Witness ==
    /\ Fitted /\ PositiveImage
    /\ imageSize.width = usableWidth /\ imageSize.height < usableHeight
    /\ imageSize.width > 1
    /\ fitted = natural

BothLarger ==
    /\ Fitted /\ PositiveImage /\ PositiveUsable
    /\ imageSize.width > usableWidth /\ imageSize.height > usableHeight

\* the larger of imageWidth/usableWidth and imageHeight/usableHeight; the
\* height ratio only when the width ratio is smaller
LargerRatio ==
    LET widthRatio == Div(natural.width, Num(usableWidth))
        heightRatio == Div(natural.height, Num(usableHeight))
    IN IF Less(widthRatio, heightRatio) THEN heightRatio ELSE widthRatio

DividedByLargerRatio ==
    fitted = [width |-> Div(natural.width, LargerRatio),
              height |-> Div(natural.height, LargerRatio)]

IsExample == imageSize = ExampleImage /\ containerSize = ExampleContainer

\* C2 as stated: an image larger than the usable area in both dimensions is
\* divided by the larger ratio, the output has exactly the aspect ratio of
\* the image (the quotient of its sides is that of the image's), it is no
\* wider and no taller than the usable area, and 1000 x 500 in 620 x 300
\* gives exactly 440 x 220.
C2_ExactFit ==
    BothLarger =>
        /\ DividedByLargerRatio
        /\ Div(fitted.width, fitted.height) = Div(natural.width, natural.height)
        /\ LessEq(fitted.width, Num(usableWidth))
        /\ LessEq(fitted.height, Num(usableHeight))
        /\ (IsExample => fitted = Size(440, 220))

\* C2 amended: an image larger than the usable area in both dimensions is
\* divided by the larger ratio (height-bound only when widthRatio <
\* heightRatio), each division rounded to a double, so that aspect ratio and
\* bounds hold up to rounding: the quotient of the output's sides is within
\* 4 units in the last place of the quotient of the image's sides, neither
\* side exceeds the usable size by more than one unit in the last place, and
\* 1000 x 500 in 620 x 300 gives 439.99999999999994 x 219.99999999999997
\* (the doubles just below 440 and 220).
C2_FitUpToRounding ==
    BothLarger =>
        /\ DividedByLargerRatio
        /\ WithinUlps(Div(natural.width, natural.height),
                      Div(fitted.width, fitted.height), 4)
        /\ LessEq(fitted.width, NextUp(Num(usableWidth)))
        /\ LessEq(fitted.height, NextUp(Num(usableHeight)))
        /\ (IsExample => fitted = [width |-> NextDown(Num(440)),
                                   height |-> NextDown(Num(220))])

\* a both-larger fit whose height comes out one unit in the last place above
\* the usable height
C2_Witness ==
    /\ BothLarger
    /\ fitted.height = NextUp(Num(usableHeight))
    /\ Less(fitted.width, Num(usableWidth))

WidthOnly ==
    /\ Fitted /\ PositiveImage /\ PositiveUsable
    /\ imageSize.width > usableWidth /\ imageSize.height <= usableHeight

HeightOnly ==
    /\ Fitted /\ PositiveImage /\ PositiveUsable
    /\ imageSize.width <= usableWidth /\ imageSize.height > usableHeight

\* C3 as stated: an image that exceeds the usable area in exactly one
\* dimension comes out with exactly the usable size in that dimension, the
\* other dimension divided by the same ratio.
C3_ExactFill ==
    /\ WidthOnly =>
        /\ fitted.width = Num(usableWidth)
        /\ fitted.height =
              Div(natural.height, Div(natural.width, Num(usableWidth)))
    /\ HeightOnly =>
        /\ fitted.height = Num(usableHeight)
        /\ fitted.width =
              Div(natural.width, Div(natural.height, Num(usableHeight)))

\* C3 amended: an image that exceeds the usable area in exactly one
\* dimension comes out, in that dimension, within one unit in the last place
\* of the usable size (container width - 20, container height - 80), and the
\* other dimension is divided by the same ratio.
C3_FillUpToRounding ==
    /\ WidthOnly =>
        /\ WithinUlps(Num(usableWidth), fitted.width, 1)
        /\ fitted.height =
              Div(natural.height, Div(natural.width, Num(usableWidth)))
    /\ HeightOnly =>
        /\ WithinUlps(Num(usableHeight), fitted.height, 1)
        /\ fitted.width =
              Div(natural.width, Div(natural.height, Num(usableHeight)))

\* a height-only fit that misses the usable height by one unit in the last
\* place
C3_Witness ==
    /\ HeightOnly
    /\ fitted.height = NextDown(Num(usableHeight))
    /\ fitted.width # natural.width

\* C4 as stated: fitting the output again against the same container
\* changes nothing.
C4_Idempotent == pc = "refitted" => refitted = fitted

\* a positive side may drop by at most two units in the last place; anything
\* else is unchanged
SameOrJustBelow(x, y) ==
    IF x.k = "fin" /\ x.s = 0 THEN y \in DownTo(x, 2) ELSE y = x

\* C4 amended: fitting the output again against the same container leaves
\* each side unchanged or lowers it by at most two units in the last place.
C4_IdempotentUpToRounding ==
    pc = "refitted" =>
        /\ SameOrJustBelow(fitted.width, refitted.width)
        /\ SameOrJustBelow(fitted.height, refitted.height)

\* a second pass that lowers both sides
C4_Witness ==
    /\ pc = "refitted"
    /\ refitted.height = NextDown(NextDown(fitted.height))
    /\ refitted.width # fitted.width

ZeroContainer == containerSize = [width |-> 0, height |-> 0]

\* C7: for the zero container and an image with positive dimensions no
\* division has a zero divisor, and the result is a pair of finite numbers,
\* neither negative.
C7_ZeroContainerFinite ==
    (Fitted /\ PositiveImage /\ ZeroContainer) =>
        /\ Less(Num(UsableHeight(containerSize)), natural.height)
              => Num(UsableHeight(containerSize)).k # "zero"
        /\ Less(Num(UsableWidth(containerSize)), natural.width)
              => Num(UsableWidth(containerSize)).k # "zero"
        /\ FitRatio(natural, containerSize).k # "zero"
        /\ IsFinite(fitted.width) /\ IsFinite(fitted.height)
        /\ ~Less(fitted.width, Zero) /\ ~Less(fitted.height, Zero)

C7_Witness ==
    /\ Fitted /\ PositiveImage /\ ZeroContainer
    /\ imageSize.width < imageSize.height
    /\ fitted = natural

NegativeUsable == containerSize.width < 20 \/ containerSize.height < 80

\* C9: for an image with positive dimensions and a container whose usable
\* width or height is negative, the result is a pair of numbers, the ratio
\* divided by is at least 1, and each returned side is at least 0 and at most
\* the natural side.
C9_NegativeUsableClamped ==
    (Fitted /\ PositiveImage /\ NegativeUsable) =>
        /\ fitted.width.k # "nan" /\ fitted.height.k # "nan"
        /\ LessEq(One, FitRatio(natural, containerSize))
        /\ LessEq(Zero, fitted.width) /\ LessEq(fitted.width, natural.width)
        /\ LessEq(Zero, fitted.height) /\ LessEq(fitted.height, natural.height)

\* negative usable width, the image scaled down to the usable height
C9_Witness ==
    /\ Fitted /\ PositiveImage
    /\ usableWidth < 0 /\ usableHeight > 0
    /\ Less(fitted.height, natural.height)
    /\ Less(Zero, fitted.width)

---------------------------------------------------------------------------
(* Properties of the component, checked under Spec.                        *)

\* C5: whichever images have loaded and whatever the diff mode, render
\* completes without reading a field of a null image size.
C5_RenderNeverReadsNull == renderResult # "TypeError"

\* C6: with a container measured as zero-sized getScaledDimensions returns
\* height 0 and width 0, whether or not the image sizes are loaded.
C6_ZeroContainerZeroLayout ==
    (layout # Null /\ layout.containerWidth = 0 /\ layout.containerHeight = 0)
    => (layout.height = Zero /\ layout.width = Zero)

\* C8: once both images have loaded, the height and width returned by
\* getScaledDimensions bound both fitted images: the height is at least each
\* fitted height and the width is at least each fitted width.
C8_SharedBoundingBox ==
    (layout # Null /\ previousImageSize # Null /\ currentImageSize # Null) =>
        LET cs == [width |-> layout.containerWidth,
                   height |-> layout.containerHeight]
            previousSize == getFittingSize(
                Size(previousImageSize.width, previousImageSize.height), cs)
            currentSize == getFittingSize(
                Size(currentImageSize.width, currentImageSize.height), cs)
        IN /\ LessEq(previousSize.height, layout.height)
           /\ LessEq(currentSize.height, layout.height)
           /\ LessEq(previousSize.width, layout.width)
           /\ LessEq(currentSize.width, layout.width)

\* C10: each event changes only its own field of the state: onValueChange
\* only value, onPreviousImageLoad only previousImageSize, onCurrentImageLoad
\* only currentImageSize; a change of diff mode, a render and a resize change
\* none of the three.  The value starts at 1 and is changed by nothing but
\* onValueChange, and a size that has been set never goes back to null.
C10_EventsChangeOwnField ==
    /\ value = 1000
    /\ [][/\ ValueChanged => UNCHANGED <<previousImageSize, currentImageSize>>
          /\ PreviousImageLoaded =>
                /\ previousImageSize' \in NaturalSizes
                /\ UNCHANGED <<currentImageSize, value>>
          /\ CurrentImageLoaded =>
                /\ currentImageSize' \in NaturalSizes
                /\ UNCHANGED <<previousImageSize, value>>
          /\ (DiffTypeChanged \/ Render \/ Resized) =>
                UNCHANGED <<value, previousImageSize, currentImageSize>>
          /\ previousImageSize # Null => previousImageSize' # Null
          /\ currentImageSize # Null => currentImageSize' # Null]_vars

\* all three fields have been set by their events, the mode has changed
C10_Witness ==
    /\ value = 500
    /\ previousImageSize # Null /\ currentImageSize # Null
    /\ previousImageSize # currentImageSize
    /\ diffType = "Difference"

=============================================================================
